---- MODULE Spec2Model ----
(***************************************************************************)
(* Route evaluation and live-adaptation engine of                          *)
(* src/src/components/MapView.jsx, as a state machine.                     *)
(*                                                                         *)
(* Numbers.  The component computes in IEEE doubles; the model computes    *)
(* the same expressions in fixed point:                                    *)
(*   coordinates        1e-4 degree   (exact: the source has 4 decimals)   *)
(*   distances          metres                                             *)
(*   speedFactor, crowd hundredths                                         *)
(*   safetyAdj          whole safety points (condition), hundredths (eff.) *)
(*   angles             milliradians                                       *)
(*   phase              hundredths                                         *)
(*   congestion         thousandths                                        *)
(*   minutes            thousandths                                        *)
(*   preferences        hundredths                                         *)
(*   score              thousandths                                        *)
(* Path indices are 0-based as in the source; path[i] of the source is     *)
(* path[i + 1] of a TLA+ sequence.                                         *)
(***************************************************************************)
EXTENDS Integers, Sequences, FiniteSets, TLC

(***************************************************************************)
(* Bounds of the exploration (not program constants).                      *)
(***************************************************************************)
\* route re-evaluations (condition ticks, preference and horizon changes)
\* explored after the first render: by Spec, and by SuggestSpec
MaxRecomputes == 1
MaxSuggestRecomputes == 3
\* condition ticks explored by ConditionsSpec: one more than the 20 ticks
\* that take a safety adjustment from 0 to its limit
MaxConditionTicks == 21

(***************************************************************************)
(* Small helpers.                                                          *)
(***************************************************************************)
Min(a, b) == IF a < b THEN a ELSE b
Max(a, b) == IF a > b THEN a ELSE b

\* floor of the square root
ISqrt(n) == CHOOSE r \in 0..46340 : r * r <= n /\ (r + 1) * (r + 1) > n

\* Math.round for a non-negative quotient num / den
RoundDiv(num, den) == (2 * num + den) \div (2 * den)

(***************************************************************************)
(* Road network (lines 34-136).  id, coords, speed (km/h), safety.      *)
(***************************************************************************)
roadNetwork ==
  [ A1 |-> [ id |-> "A1", name |-> "Aurora Ave",
             letter |-> "A", digit |-> "1",
             coords |-> << <<377760, -1224240>>, <<377765, -1224210>>,
                           <<377768, -1224185>>, <<377772, -1224160>> >>,
             speed |-> 40, safety |-> 62 ],
    A2 |-> [ id |-> "A2", name |-> "Aurora Ave",
             letter |-> "A", digit |-> "2",
             coords |-> << <<377772, -1224160>>, <<377783, -1224135>>,
                           <<377790, -1224115>> >>,
             speed |-> 40, safety |-> 55 ],
    B1 |-> [ id |-> "B1", name |-> "Beacon St",
             letter |-> "B", digit |-> "1",
             coords |-> << <<377745, -1224190>>, <<377752, -1224170>>,
                           <<377760, -1224145>> >>,
             speed |-> 30, safety |-> 80 ],
    B2 |-> [ id |-> "B2", name |-> "Beacon St",
             letter |-> "B", digit |-> "2",
             coords |-> << <<377760, -1224145>>, <<377770, -1224120>>,
                           <<377778, -1224100>> >>,
             speed |-> 30, safety |-> 78 ],
    C1 |-> [ id |-> "C1", name |-> "Cobalt Blvd",
             letter |-> "C", digit |-> "1",
             coords |-> << <<377735, -1224235>>, <<377730, -1224210>>,
                           <<377725, -1224180>> >>,
             speed |-> 50, safety |-> 45 ],
    C2 |-> [ id |-> "C2", name |-> "Cobalt Blvd",
             letter |-> "C", digit |-> "2",
             coords |-> << <<377725, -1224180>>, <<377720, -1224155>>,
                           <<377715, -1224130>> >>,
             speed |-> 50, safety |-> 42 ] ]

SegIds == DOMAIN roadNetwork

\* route keys in declaration order (lines 138-144)
routeOptions == << "fastest", "safest", "balanced", "night", "female" >>

RouteKeys == { routeOptions[i] : i \in 1..Len(routeOptions) }

\* fixed segment sequences of the candidates (lines 342-363)
baseCandidates ==
  [ fastest  |-> << "C1", "C2", "A2" >>,
    safest   |-> << "B1", "B2" >>,
    balanced |-> << "A1", "B1", "B2" >>,
    night    |-> << "A1", "A2" >>,
    female   |-> << "B1", "A2" >> ]

(***************************************************************************)
(* Geometry (lines 146-179).                                               *)
(***************************************************************************)
\* metres per 1e-4 degree of latitude / longitude at latitude 37.775,
\* in tenths of a metre: R * pi / 180 * 1e-4 (and * cos(lat))
LatDm == 111
LonDm == 88

\* great-circle distance in metres; on this 2 km map the haversine formula
\* equals the equirectangular distance to well under one metre
haversineDistance(a, b) ==
  LET dy == (b[1] - a[1]) * LatDm
      dx == (b[2] - a[2]) * LonDm
  IN  (ISqrt(dy * dy + dx * dx) + 5) \div 10

\* concatenation of the segments' coordinates; the first point of every
\* segment after the first is skipped (idx > 0 && i === 0)
RECURSIVE buildPathFrom(_, _)
buildPathFrom(segments, idx) ==
  IF idx > Len(segments) THEN << >>
  ELSE LET pts == roadNetwork[segments[idx]].coords
       IN  (IF idx > 1 THEN Tail(pts) ELSE pts) \o buildPathFrom(segments, idx + 1)

buildPath(segments) == buildPathFrom(segments, 1)

RECURSIVE pathDistanceFrom(_, _)
pathDistanceFrom(path, i) ==
  IF i >= Len(path) THEN 0
  ELSE haversineDistance(path[i], path[i + 1]) + pathDistanceFrom(path, i + 1)

pathDistance(path) == pathDistanceFrom(path, 1)

\* evaluated once: path of every candidate, length of every segment
routePath == [ k \in RouteKeys |-> buildPath(baseCandidates[k]) ]
segDist == [ s \in SegIds |-> pathDistance(roadNetwork[s].coords) ]

\* five colour bands (lines 181-187); score in hundredths of a safety point
routeSafetyColor(score) ==
  IF score >= 8000 THEN "#10b981"
  ELSE IF score >= 6000 THEN "#84cc16"
  ELSE IF score >= 4000 THEN "#f59e0b"
  ELSE IF score >= 2000 THEN "#f97316"
  ELSE "#ef4444"

(***************************************************************************)
(* Predictive model (lines 365-374).                                       *)
(***************************************************************************)
\* String.charCodeAt of the characters that occur in segment ids
charCodeAt == [ A |-> 65, B |-> 66, C |-> 67 ]
digitCodeAt == [ d \in {"1", "2"} |-> IF d = "1" THEN 49 ELSE 50 ]

\* segId.split('').reduce((a, c) => a + c.charCodeAt(0), 0)
seed(segId) ==
  charCodeAt[roadNetwork[segId].letter] + digitCodeAt[roadNetwork[segId].digit]

\* Math.PI in milliradians
PiMilli == 3142

\* (Math.sin(x) + 1) / 2 in hundredths, for x in [0, pi) milliradians
\* (Bhaskara's rational form of the sine, exact to 0.002)
phaseOf(x) ==
  LET p == x * (PiMilli - x)
  IN  50 + (800 * p) \div (5 * PiMilli * PiMilli - 4 * p)

\* now is Date.now() in units of 100 ms, so now / 100000 ms is now / 1000
predict(segId, horizonMin, now) ==
  LET phase == phaseOf((now + seed(segId) * 1000) % PiMilli)
      congestion == 900 + (phase * horizonMin) \div 10
      risk == (phase * horizonMin) \div 2 - 500
      lightingPenalty == IF roadNetwork[segId].letter = "C" THEN 800
                         ELSE IF roadNetwork[segId].letter = "A" THEN 200
                         ELSE 0
  IN  [ speedFactor |-> 1000000 \div congestion,
        safetyAdj |-> risk - lightingPenalty ]

\* readings of Date.now() (units of 100 ms, modulo the period of the phase)
Nows == { 0, 800 }

\* values the horizon slider is moved to (line 671); 15 is the initial one
horizonValues == { 15, 30 }

\* two consecutive readings of Date.now(), for a clock that advances while
\* the routes are being evaluated
ClockReadings == << 1332, 1333 >>

\* predict is a function of its arguments and the clock alone: its values,
\* evaluated once
predictions ==
  [ s \in SegIds |->
      [ h \in horizonValues |->
          [ now \in Nows \cup { ClockReadings[1], ClockReadings[2] } |->
              predict(s, h, now) ] ] ]

(***************************************************************************)
(* State of the MapView component (lines 311-337, 535).                    *)
(***************************************************************************)
VARIABLES
  profileKey,   \* key of the active candidate
  conditions,   \* segment id -> [speedFactor, safetyAdj, crowd]
  prefs,        \* [avoidBusy, preferLit, comfort]
  horizon,      \* forecast horizon, minutes
  progress,     \* [idx]: path index of the simulated position
  simOn,        \* simulation running
  prevRoute,    \* key of the route that was active before the last accept
  suggestion,   \* [best, timeSaved, safetyGain], best = "none" for null
  showCompare,  \* comparison overlay shown
  routes,       \* memoised evaluation of every candidate
  voicedRef,    \* path indices that have announced
  spoken,       \* utterances handed to the speech synthesiser
  recomputes    \* re-evaluations of the routes so far (model bookkeeping)

vars == << profileKey, conditions, prefs, horizon, progress, simOn, prevRoute,
           suggestion, showCompare, routes, voicedRef, spoken, recomputes >>

(***************************************************************************)
(* Route evaluator (lines 376-452).                                        *)
(***************************************************************************)
neutralCondition == [ speedFactor |-> 100, safetyAdj |-> 0, crowd |-> 30 ]

\* hazard note of a step (line 410); "" is undefined
stepNote(effSafety) ==
  IF effSafety >= 7500 THEN "Well-lit area with cameras"
  ELSE IF effSafety <= 4500 THEN "Low visibility, avoid late hours"
  ELSE ""

\* Math.max(0, Math.min(100, s.safety + cond.safetyAdj + pred.safetyAdj))
effectiveSafety(segId, cond, pred) ==
  Max(0, Min(10000, roadNetwork[segId].safety * 100 + cond.safetyAdj * 100
                      + pred.safetyAdj))

\* one iteration of segs.map (lines 388-412): the running totals after the
\* segment, and its step descriptor appended
addStep(acc, segId, cond, hor, now) ==
  LET s == roadNetwork[segId]
      dist == segDist[segId]
      pred == predictions[segId][hor][now]
      effSpeed == Max(500, (s.speed * cond.speedFactor * pred.speedFactor) \div 1000)
      effSafety == effectiveSafety(segId, cond, pred)
  IN  [ totalMeters |-> acc.totalMeters + dist,
        totalTime   |-> acc.totalTime + (dist * 6000) \div effSpeed,
        safetySum   |-> acc.safetySum + effSafety * dist,
        crowdSum    |-> acc.crowdSum + cond.crowd * dist,
        steps       |-> Append(acc.steps,
                               [ safety |-> effSafety, note |-> stepNote(effSafety) ]) ]

conditionOf(cond, segId) ==
  IF segId \in DOMAIN cond THEN cond[segId] ELSE neutralCondition

\* clock[i] is what Date.now() returns in the i-th call of predict: calls
\* 1..n build the steps, calls n+1..2n the coloured polylines
RECURSIVE stepsFrom(_, _, _, _, _, _)
stepsFrom(acc, segs, cond, hor, clock, i) ==
  IF i > Len(segs) THEN acc
  ELSE stepsFrom(addStep(acc, segs[i], conditionOf(cond, segs[i]), hor, clock[i]),
                 segs, cond, hor, clock, i + 1)

RECURSIVE coloredFrom(_, _, _, _, _)
coloredFrom(segs, cond, hor, clock, i) ==
  IF i > Len(segs) THEN << >>
  ELSE << routeSafetyColor(
            effectiveSafety(segs[i], conditionOf(cond, segs[i]),
                            predictions[segs[i]][hor][clock[Len(segs) + i]])) >>
       \o coloredFrom(segs, cond, hor, clock, i + 1)

\* score in thousandths from avgSafety (hundredths), timeMin (thousandths),
\* avgCrowd (hundredths) and the preferences (hundredths), lines 420-422
scoreOf(avgSafety, timeMin, avgCrowd, pf) ==
  (avgSafety * (100 + pf.preferLit) * 3
     - timeMin * (200 - pf.comfort)
     - avgCrowd * pf.avoidBusy * 480) \div 6000

evaluate(key, cond, hor, pf, clock) ==
  LET segs == baseCandidates[key]
      acc == stepsFrom([ totalMeters |-> 0, totalTime |-> 0, safetySum |-> 0,
                         crowdSum |-> 0, steps |-> << >> ],
                       segs, cond, hor, clock, 1)
      avgSafety == acc.safetySum \div Max(acc.totalMeters, 1)
      avgCrowd == acc.crowdSum \div Max(acc.totalMeters, 1)
  IN  [ key |-> key,
        total |-> acc.totalMeters,
        etaMin |-> acc.totalTime,
        steps |-> acc.steps,
        colored |-> coloredFrom(segs, cond, hor, clock, 1),
        avgSafety |-> avgSafety,
        avgCrowd |-> avgCrowd,
        score |-> scoreOf(avgSafety, acc.totalTime, avgCrowd, pf) ]

\* the routes memo: every candidate evaluated with the current inputs
evaluateAll(cond, hor, pf, now) ==
  [ k \in RouteKeys |-> evaluate(k, cond, hor, pf, [ i \in 1..6 |-> now ]) ]

\* number of Date.now() calls made by the evaluations that precede the
\* i-th candidate: every evaluate calls predict twice per segment
RECURSIVE callsBefore(_)
callsBefore(i) ==
  IF i <= 1 THEN 0
  ELSE callsBefore(i - 1) + 2 * Len(baseCandidates[routeOptions[i - 1]])

\* the routes memo when the j-th Date.now() call of the render reads clock[j]
evaluateRoutes(cond, hor, pf, clock) ==
  [ k \in RouteKeys |->
      LET n == CHOOSE i \in 1..Len(routeOptions) : routeOptions[i] = k
      IN  evaluate(k, cond, hor, pf, [ i \in 1..6 |-> clock[callsBefore(n) + i] ]) ]

\* the clocks of a render during which the time advances at most once, from
\* the first reading to the second
advancingClocks ==
  LET calls == callsBefore(Len(routeOptions) + 1)
  IN  { [ j \in 1..calls |-> IF j <= switch THEN ClockReadings[1]
                                              ELSE ClockReadings[2] ] :
          switch \in 0..calls }

(***************************************************************************)
(* Live conditions (lines 315-324, 457-472).                               *)
(***************************************************************************)
initialConditions == [ id \in SegIds |-> neutralCondition ]

\* Outcomes of the three Math.random() calls per segment, as steps of the
\* fixed-point grid: (Math.random() - 0.5) * 0.1 is one step of 0.05 at most,
\* (Math.random() - 0.5) * 2 one safety point at most.  A draw gives every
\* street <<speed steps, crowd steps, safety steps>>.
randomDraws ==
  { [ A |-> <<  1, -1,  1 >>, B |-> << -1,  1, -1 >>, C |-> <<  0,  0,  0 >> ],
    [ A |-> << -1,  1, -1 >>, B |-> <<  1, -1,  1 >>, C |-> <<  0,  0,  0 >> ],
    [ A |-> << -1, -1,  1 >>, B |-> << -1, -1,  1 >>, C |-> <<  1,  1, -1 >> ] }

\* variant: the jitter without the clamps
jitterUnclamped(prev, draw) ==
  [ id \in DOMAIN prev |->
      LET d == draw[roadNetwork[id].letter]
      IN  [ speedFactor |-> prev[id].speedFactor + 5 * d[1],
            crowd       |-> prev[id].crowd + 5 * d[2],
            safetyAdj   |-> prev[id].safetyAdj + d[3] ] ]

\* the state updater of the 6 s interval: every segment jittered and clamped
jitterConditions(prev, draw) ==
  [ id \in DOMAIN prev |->
      LET d == draw[roadNetwork[id].letter]
      IN  [ speedFactor |-> Max(70, Min(130, prev[id].speedFactor + 5 * d[1])),
            crowd       |-> Max(0, Min(100, prev[id].crowd + 5 * d[2])),
            safetyAdj   |-> Max(0 - 20, Min(20, prev[id].safetyAdj + d[3])) ] ]

(***************************************************************************)
(* Suggestion effect (lines 474-486).                                      *)
(***************************************************************************)
noSuggestion == [ best |-> "none", timeSaved |-> 0, safetyGain |-> 0 ]

\* Object.values(routes).reduce((a, b) => (a.score > b.score ? a : b))
RECURSIVE reduceBest(_, _, _)
reduceBest(rs, a, i) ==
  IF i > Len(routeOptions) THEN a
  ELSE reduceBest(rs, IF rs[a].score > rs[routeOptions[i]].score
                      THEN a ELSE routeOptions[i], i + 1)

bestKey(rs) == reduceBest(rs, routeOptions[1], 2)

\* variant: any other route that scores at least as high as the active one
\* is suggested
suggestionAlsoOnTie(rs, pk) ==
  LET others == { k \in RouteKeys \ { pk } : rs[k].score >= rs[pk].score }
  IN  IF others # {}
      THEN LET b == CHOOSE k \in others :
                      \A j \in others : rs[k].score >= rs[j].score
           IN  [ best |-> b,
                 timeSaved |-> Max(0, rs[pk].etaMin - rs[b].etaMin),
                 safetyGain |-> Max(0, rs[b].avgSafety - rs[pk].avgSafety) ]
      ELSE noSuggestion

\* variant: the differences stored as they are, without Math.max(0, ...)
suggestionUnclamped(rs, pk) ==
  LET best == rs[bestKey(rs)]
      active == rs[pk]
  IN  IF best.key # active.key
      THEN [ best |-> best.key,
             timeSaved |-> active.etaMin - best.etaMin,
             safetyGain |-> best.avgSafety - active.avgSafety ]
      ELSE noSuggestion

suggestionEffect(rs, pk) ==
  LET best == rs[bestKey(rs)]
      active == rs[pk]
  IN  IF best.key # active.key
      THEN [ best |-> best.key,
             timeSaved |-> Max(0, active.etaMin - best.etaMin),
             safetyGain |-> Max(0, best.avgSafety - active.avgSafety) ]
      ELSE noSuggestion

(***************************************************************************)
(* Maneuvers and voice (lines 294-308, 509-549).                           *)
(***************************************************************************)
\* length of the edge that leaves path index i (0-based), per candidate
pathEdges ==
  [ k \in RouteKeys |->
      [ i \in 0..(Len(routePath[k]) - 2) |->
          haversineDistance(routePath[k][i + 1], routePath[k][i + 2]) ] ]

\* Array.prototype.findIndex on coordinates: 0-based, -1 when absent
findIndex(path, pt) ==
  IF \E i \in 1..Len(path) : path[i] = pt
  THEN (CHOOSE i \in 1..Len(path) :
          path[i] = pt /\ \A j \in 1..(i - 1) : path[j] # pt) - 1
  ELSE 0 - 1

\* one maneuver per segment boundary: the first point of the next segment
maneuvers(key) ==
  LET list == baseCandidates[key]
  IN  [ i \in 1..(Len(list) - 1) |->
          [ point |-> roadNetwork[list[i + 1]].coords[1],
            label |-> roadNetwork[list[i + 1]].name ] ]

noManeuver == [ point |-> << 0, 0 >>, label |-> "", nearestIndex |-> 0 - 1 ]

RECURSIVE closestAhead(_, _, _, _, _)
closestAhead(ms, path, idx, best, i) ==
  IF i > Len(ms) THEN best
  ELSE LET nearestIndex == findIndex(path, ms[i].point)
       IN  closestAhead(ms, path, idx,
             IF nearestIndex > idx
                /\ (best = noManeuver \/ nearestIndex < best.nearestIndex)
             THEN [ point |-> ms[i].point, label |-> ms[i].label,
                    nearestIndex |-> nearestIndex ]
             ELSE best,
             i + 1)

\* null is noManeuver
currentManeuver(key, idx) ==
  closestAhead(maneuvers(key), routePath[key], idx, noManeuver, 1)

RECURSIVE edgeSum(_, _, _)
edgeSum(key, from, to) ==
  IF from >= to THEN 0 ELSE pathEdges[key][from] + edgeSum(key, from + 1, to)

distanceAhead(key, idx, cm) ==
  edgeSum(key, idx, Min(cm.nearestIndex, Len(routePath[key]) - 1))

\* proximity threshold of the announcement, metres (line 545)
VoiceThreshold == 80

\* what window.speechSynthesis can be when speak runs
SpeechEnvs == { "ok", "absent", "throws" }

\* speak: the utterance reaches the synthesiser only if there is one and
\* nothing throws; every failure is swallowed by the try/catch
speak(log, text, env) == IF env = "ok" THEN Append(log, text) ELSE log

\* whether the voice effect announces
announcementDue(key, idx, voiced) ==
  LET cm == currentManeuver(key, idx)
  IN  /\ cm # noManeuver
      /\ distanceAhead(key, idx, cm) < VoiceThreshold
      /\ cm.nearestIndex \notin voiced

\* the voice effect: [voicedRef, spoken] after it has run
voiceEffect(key, idx, voiced, log, env) ==
  LET cm == currentManeuver(key, idx)
  IN  IF announcementDue(key, idx, voiced)
      THEN [ voicedRef |-> voiced \cup { cm.nearestIndex },
             spoken |-> speak(log, cm.label, env) ]
      ELSE [ voicedRef |-> voiced, spoken |-> log ]

\* the voice effect after a render; the speech environment matters only
\* when speak is called
RunVoiceEffect(key, idx) ==
  IF announcementDue(key, idx, voicedRef)
  THEN \E env \in SpeechEnvs :
         LET v == voiceEffect(key, idx, voicedRef, spoken, env)
         IN  voicedRef' = v.voicedRef /\ spoken' = v.spoken
  ELSE UNCHANGED << voicedRef, spoken >>

\* the effects that follow a render in which the active route changed
RunEffects(rs, pk, idx) ==
  /\ suggestion' = suggestionEffect(rs, pk)
  /\ RunVoiceEffect(pk, idx)

(***************************************************************************)
(* Progress simulator (lines 488-507).                                     *)
(***************************************************************************)
\* variant: a step timer that is not cancelled when the simulation stops
stepTimerNeverCancelled(on, key) == Len(routePath[key]) >= 2

\* the step timer is armed by the effect unless it returns early
stepTimerArmed(on, key) == on /\ Len(routePath[key]) >= 2

\* ms per frame (line 499)
FrameMs == 250

\* variant: the step size without its floor of one point
nextIndexUnfloored(key, rs, idx) ==
  LET points == routePath[key]
      idxInc == RoundDiv(Len(points) * FrameMs, rs[key].etaMin * 60)
  IN  Min(Len(points) - 1, idx + idxInc)

\* nextIdx of step(): dt / totalTimeMs = FrameMs / (etaMin * 60 * 1000)
nextIndex(key, rs, idx) ==
  LET points == routePath[key]
      idxInc == Max(1, RoundDiv(Len(points) * FrameMs, rs[key].etaMin * 60))
  IN  Min(Len(points) - 1, idx + idxInc)

(***************************************************************************)
(* Initial state: the first render and the effects that follow it.         *)
(***************************************************************************)
initialPrefs == [ avoidBusy |-> 40, preferLit |-> 60, comfort |-> 60 ]

Init ==
  /\ profileKey = "balanced"
  /\ conditions = initialConditions
  /\ prefs = initialPrefs
  /\ horizon = 15
  /\ progress = [ idx |-> 0 ]
  /\ simOn = TRUE
  /\ prevRoute = "none"
  /\ showCompare = FALSE
  /\ recomputes = 0
  /\ \E now \in Nows :
       routes = evaluateAll(initialConditions, 15, initialPrefs, now)
  /\ suggestion = suggestionEffect(routes, "balanced")
  /\ \E env \in SpeechEnvs :
       LET v == voiceEffect("balanced", 0, {}, << >>, env)
       IN  voicedRef = v.voicedRef /\ spoken = v.spoken

(***************************************************************************)
(* Events.  Each action is the handler, the render it causes and the       *)
(* effects whose dependencies changed in that render.                      *)
(***************************************************************************)
\* bookkeeping of the exploration: one more re-evaluation of the routes
RecomputeCap == Max(MaxConditionTicks, Max(MaxRecomputes, MaxSuggestRecomputes))
Recomputed == recomputes' = Min(recomputes + 1, RecomputeCap)

\* the 6 s interval fires: conditions jittered, every route re-evaluated
ConditionsTick ==
  /\ \E draw \in randomDraws : conditions' = jitterConditions(conditions, draw)
  /\ \E now \in Nows : routes' = evaluateAll(conditions', horizon, prefs, now)
  /\ RunEffects(routes', profileKey, progress.idx)
  /\ Recomputed
  /\ UNCHANGED << profileKey, prefs, horizon, progress, simOn, prevRoute,
                  showCompare >>

\* the step timer fires
ProgressStep ==
  /\ stepTimerArmed(simOn, profileKey)
  /\ progress' = [ idx |-> nextIndex(profileKey, routes, progress.idx) ]
  /\ RunVoiceEffect(profileKey, progress'.idx)
  /\ UNCHANGED << profileKey, conditions, prefs, horizon, simOn, prevRoute,
                  suggestion, showCompare, routes, recomputes >>

\* a click on another route of the selector (lines 603-619)
SetProfileKey ==
  \E key \in RouteKeys :
    /\ key # profileKey
    /\ profileKey' = key
    /\ RunEffects(routes, key, progress.idx)
    /\ UNCHANGED << conditions, prefs, horizon, progress, simOn, prevRoute,
                    showCompare, routes, recomputes >>

\* the Switch button of the suggestion card (lines 551-557)
acceptSuggestion ==
  /\ suggestion # noSuggestion
  /\ prevRoute' = profileKey
  /\ profileKey' = suggestion.best
  /\ showCompare' = TRUE
  /\ RunEffects(routes, suggestion.best, progress.idx)
  /\ UNCHANGED << conditions, prefs, horizon, progress, simOn, routes,
                  recomputes >>

\* values the preference sliders are moved to (lines 661-667)
sliderValues ==
  [ avoidBusy |-> { 40, 95 }, preferLit |-> { 0, 60 }, comfort |-> { 50 } ]

SetPrefs ==
  \E field \in DOMAIN sliderValues :
    \E v \in sliderValues[field] :
      /\ v # prefs[field]
      /\ prefs' = [ prefs EXCEPT ![field] = v ]
      /\ \E now \in Nows : routes' = evaluateAll(conditions, horizon, prefs', now)
      /\ RunEffects(routes', profileKey, progress.idx)
      /\ Recomputed
      /\ UNCHANGED << profileKey, conditions, horizon, progress, simOn,
                      prevRoute, showCompare >>

SetHorizon ==
  \E h \in horizonValues :
    /\ h # horizon
    /\ horizon' = h
    /\ \E now \in Nows : routes' = evaluateAll(conditions, h, prefs, now)
    /\ RunEffects(routes', profileKey, progress.idx)
    /\ Recomputed
    /\ UNCHANGED << profileKey, conditions, prefs, progress, simOn, prevRoute,
                    showCompare >>

\* the Sim ON / Sim OFF button (line 673)
ToggleSim ==
  /\ simOn' = ~simOn
  /\ UNCHANGED << profileKey, conditions, prefs, horizon, progress, prevRoute,
                  suggestion, showCompare, routes, voicedRef, spoken, recomputes >>

(***************************************************************************)
(* Specifications.  Re-evaluating the routes is the costly event, so every *)
(* specification explores a bounded number of them.                        *)
(***************************************************************************)
\* Spec: every event of the component, interleaved
TickInBudget == recomputes < MaxRecomputes /\ ConditionsTick
PrefsInBudget == recomputes < MaxRecomputes /\ SetPrefs
HorizonInBudget == recomputes < MaxRecomputes /\ SetHorizon

Next ==
  \/ TickInBudget
  \/ ProgressStep
  \/ SetProfileKey
  \/ acceptSuggestion
  \/ PrefsInBudget
  \/ HorizonInBudget
  \/ ToggleSim

Spec == Init /\ [][Next]_vars

\* FairSpec: Spec with a step timer that keeps firing while it is armed; the
\* effect re-arms it 300 ms after every render, the renders caused by the
\* 6 s interval included, and it then fires every 250 ms
FairSpec == Spec /\ WF_vars(ProgressStep)

\* SuggestSpec: the events that re-run the suggestion effect (it reads
\* routes and the active key only), with more re-evaluations
SuggestTick == recomputes < MaxSuggestRecomputes /\ ConditionsTick
SuggestPrefs == recomputes < MaxSuggestRecomputes /\ SetPrefs
SuggestHorizon == recomputes < MaxSuggestRecomputes /\ SetHorizon

SuggestNext ==
  \/ SuggestTick
  \/ SuggestPrefs
  \/ SuggestHorizon
  \/ SetProfileKey
  \/ acceptSuggestion

SuggestSpec == Init /\ [][SuggestNext]_vars

\* ConditionsSpec: the condition store alone, tick after tick
ConditionsNext == recomputes < MaxConditionTicks /\ ConditionsTick

ConditionsSpec == Init /\ [][ConditionsNext]_vars

\* EvaluateSpec: re-evaluations during which the clock advances
MaxClockedRecomputes == 2

ClockedTick ==
  /\ recomputes < MaxClockedRecomputes
  /\ \E draw \in randomDraws : conditions' = jitterConditions(conditions, draw)
  /\ \E clock \in advancingClocks :
       routes' = evaluateRoutes(conditions', horizon, prefs, clock)
  /\ RunEffects(routes', profileKey, progress.idx)
  /\ Recomputed
  /\ UNCHANGED << profileKey, prefs, horizon, progress, simOn, prevRoute,
                  showCompare >>

ClockedHorizon ==
  /\ recomputes < MaxClockedRecomputes
  /\ \E h \in horizonValues :
       /\ h # horizon
       /\ horizon' = h
       /\ \E clock \in advancingClocks :
            routes' = evaluateRoutes(conditions, h, prefs, clock)
  /\ RunEffects(routes', profileKey, progress.idx)
  /\ Recomputed
  /\ UNCHANGED << profileKey, conditions, prefs, progress, simOn, prevRoute,
                  showCompare >>

EvaluateNext ==
  \/ ClockedTick
  \/ ClockedHorizon

EvaluateSpec == Init /\ [][EvaluateNext]_vars

(***************************************************************************)
(* Properties of the progress simulator.                                   *)
(***************************************************************************)
\* last index of the path of a candidate
lastIndex(key) == Len(routePath[key]) - 1

\* C1: in every reachable state the stored progress index is at most the
\* last index of the active route's path (path length - 1).
C1_IndexWithinActivePath == progress.idx <= lastIndex(profileKey)

\* C2: whenever the key of the active candidate changes (selector click or
\* accepted suggestion), the progress index is 0 once the change is made,
\* before any later tick or maneuver detection reads it.
C2_ResetOnCandidateChange ==
  [][profileKey' # profileKey => progress'.idx = 0]_vars

(***************************************************************************)
(* Properties of the suggestion effect.                                    *)
(***************************************************************************)
\* C3: after the suggestion effect has run on the evaluated routes, a
\* suggestion is present only if some non-active route's score strictly
\* exceeds the active route's score; an active route with the maximum
\* score, tied or not, has no suggestion.
C3_SuggestionOnlyIfStrictlyBetter ==
  suggestion # noSuggestion =>
    \E k \in RouteKeys \ { profileKey } :
      routes[k].score > routes[profileKey].score

\* C8: every stored suggestion has timeSaved >= 0 and safetyGain >= 0, also
\* when the best-scoring route is slower or less safe than the active one.
C8_SuggestionNonNegative ==
  suggestion.timeSaved >= 0 /\ suggestion.safetyGain >= 0

\* a suggestion whose best route is slower and less safe than the active
\* one: both differences are negative and both are stored as 0
C8_WorseBestSuggested ==
  /\ suggestion # noSuggestion
  /\ routes[suggestion.best].etaMin > routes[profileKey].etaMin
  /\ routes[suggestion.best].avgSafety < routes[profileKey].avgSafety
  /\ suggestion.timeSaved = 0
  /\ suggestion.safetyGain = 0

(***************************************************************************)
(* Properties of the simulation toggle.                                    *)
(***************************************************************************)
\* C6: while the simulation is off, no event changes the progress index
\* and none announces a maneuver, until it is toggled on again.
C6_NoProgressWhileOff ==
  [][~simOn => progress' = progress /\ spoken' = spoken /\ voicedRef' = voicedRef]_vars

\* the simulation stopped mid-route, after a re-evaluation and a switch
C6_StoppedMidRoute ==
  /\ ~simOn
  /\ progress.idx > 0
  /\ progress.idx < lastIndex(profileKey)
  /\ recomputes > 0
  /\ prevRoute # "none"

(***************************************************************************)
(* Properties of the condition store.                                      *)
(***************************************************************************)
\* C7: after any number of condition ticks from the neutral initial values,
\* every segment has speedFactor in [0.7, 1.3], crowd in [0, 1] and
\* safetyAdj in [-20, 20], and the set of segment ids is unchanged.
C7_ConditionsInRange ==
  /\ DOMAIN conditions = SegIds
  /\ \A id \in SegIds :
       /\ conditions[id].speedFactor \in 70..130
       /\ conditions[id].crowd \in 0..100
       /\ conditions[id].safetyAdj \in (0 - 20)..20

\* more ticks than any limit is away: all three clamps of a segment engaged
C7_ClampsEngaged ==
  /\ recomputes > 20
  /\ conditions["A1"].speedFactor = 130
  /\ conditions["A1"].crowd = 0
  /\ conditions["A1"].safetyAdj = 20
  /\ conditions["B2"].speedFactor = 70
  /\ conditions["B2"].crowd = 100
  /\ conditions["B2"].safetyAdj = 0 - 20

(***************************************************************************)
(* Properties of the path builder.                                         *)
(***************************************************************************)
\* the join of the route description: the first point of a segment is left
\* out only where it repeats the last point of the segment before it
RECURSIVE joinDroppingDuplicates(_, _)
joinDroppingDuplicates(segments, idx) ==
  IF idx > Len(segments) THEN << >>
  ELSE LET pts == roadNetwork[segments[idx]].coords
           duplicate ==
             IF idx = 1 THEN FALSE
             ELSE LET before == roadNetwork[segments[idx - 1]].coords
                  IN  pts[1] = before[Len(before)]
       IN  (IF duplicate THEN Tail(pts) ELSE pts)
             \o joinDroppingDuplicates(segments, idx + 1)

\* C9: buildPath drops the first point of a segment only if it duplicates
\* the last point of the segment before: the path of every candidate holds,
\* in order, every coordinate of every segment but those duplicates.
C9_OnlyDuplicatesDropped ==
  \A k \in DOMAIN routes :
    routePath[routes[k].key] = joinDroppingDuplicates(baseCandidates[routes[k].key], 1)

(***************************************************************************)
(* Properties of the evaluator.                                            *)
(***************************************************************************)
\* C11: one call of evaluate forecasts every segment for one instant, also
\* when the clock advances while it runs: the effective safety of a
\* segment's step descriptor is the one its colour was classified from.
C11_StepAndColourAgree ==
  \A k \in DOMAIN routes :
    \A i \in 1..Len(routes[k].steps) :
      routes[k].colored[i] = routeSafetyColor(routes[k].steps[i].safety)

\* C12: for a fixed segment and a fixed time a longer horizon never predicts
\* better safety: the safety adjustment of predict, which evaluate adds to
\* the base safety, does not increase when the horizon is raised.
C12_LongerHorizonNotSafer ==
  [][horizon' > horizon =>
       \A s \in SegIds : \A now \in Nows :
         predict(s, horizon', now).safetyAdj <= predict(s, horizon, now).safetyAdj]_vars

(***************************************************************************)
(* Properties of the maneuver detection.                                   *)
(***************************************************************************)
\* C13: for the active candidate and the progress index, every segment
\* boundary of the candidate has a path index, the current maneuver is the
\* boundary with the smallest path index strictly greater than the progress
\* index, and there is none only when no boundary lies ahead.
C13_NearestBoundaryAhead ==
  LET ms == maneuvers(profileKey)
      at(i) == findIndex(routePath[profileKey], ms[i].point)
      cm == currentManeuver(profileKey, progress.idx)
  IN  /\ \A i \in DOMAIN ms : at(i) >= 0
      /\ cm # noManeuver =>
           /\ cm.nearestIndex > progress.idx
           /\ \E i \in DOMAIN ms : at(i) = cm.nearestIndex /\ ms[i].point = cm.point
           /\ \A i \in DOMAIN ms : at(i) > progress.idx => cm.nearestIndex <= at(i)
      /\ cm = noManeuver => \A i \in DOMAIN ms : at(i) <= progress.idx

C15_ProgressReachesEnd ==
  /\ [][(simOn /\ simOn' /\ profileKey' = profileKey
           /\ progress.idx <= lastIndex(profileKey))
         => progress'.idx >= progress.idx]_vars
  /\ \A k \in RouteKeys :
       <>[](simOn /\ profileKey = k) => <>[](progress.idx = lastIndex(k))

\* the end of the active path reached with the simulation on, after the
\* timer was re-armed by a re-evaluation
C15_ArrivedAtEnd ==
  /\ simOn
  /\ recomputes > 0
  /\ progress.idx = lastIndex(profileKey)
  /\ prevRoute = "none"

====
